---- MODULE Spec2Model ----
(***************************************************************************)
(* Credential lifecycle of the Joyxora backend (src/index.js, lines 1-371): *)
(* signup, signin, forgot-password, reset-password and the bearer-token     *)
(* middleware in front of /api/me and /api/profile; and the posts to the    *)
(* waitlist and to the funder list, kept in tables of the database          *)
(* (src/index.js, src/unnamed/part_001: `lists`) or in JSON files           *)
(* (src/unnamed/part_000: `files`).                                         *)
(*                                                                          *)
(* Every request in flight is one slot of `req`; an answered request stays  *)
(* in its slot, with its answer, until a new request takes the slot.  A     *)
(* handler runs synchronously from one await to the next (Node runs one     *)
(* callback at a time), so one action is: the store or bcrypt call that an  *)
(* await waits for, followed by the handler code up to the next await or to *)
(* the response.  Between two actions of a request any other request may    *)
(* take steps.                                                              *)
(*                                                                          *)
(* Time is in milliseconds, as Date.now().  The store's NOW() and the       *)
(* server's Date.now() read the same clock `now`.  In Spec, SpecAuth and    *)
(* SpecSerial store calls do not fail except by the unique constraints of   *)
(* the signup table; in SpecWhole, SpecFaults and FairFaults any store or   *)
(* bcrypt call may reject, and a rejected statement is not applied.         *)
(*                                                                          *)
(* Fields of a request that the code does not have (registered, clash,      *)
(* account, latest, raced, replay, readAt, lookedAt, held, at, reads,       *)
(* threw) and the variables accounts, consumed and lastReset record the     *)
(* history that the properties speak about; no guard and no answer reads    *)
(* them.                                                                    *)
(*                                                                          *)
(* The specifications share the actions: Spec (account routes, any          *)
(* interleaving of MaxReq requests), SpecAuth (protected routes),           *)
(* SpecSerial (all routes and malformed bodies, one request at a time),     *)
(* SpecWhole (all routes interleaved for one account, rejecting calls),     *)
(* SpecFaults (SpecSerial with rejecting calls), FairFaults (SpecFaults     *)
(* with calls that eventually settle), SpecMail (mail outcomes), SpecJwt    *)
(* (bearer tokens around their expiry) and SpecLists (waitlist and funder   *)
(* posts).                                                                  *)
(***************************************************************************)
EXTENDS Integers, Sequences, FiniteSets, TLC

\* ------------------------------------------------------------------ bounds
MaxReq == 2            \* requests in flight at the same time
MaxTokens == 2         \* reset tokens drawn from crypto.randomBytes
MaxId == 2             \* values drawn from the SERIAL sequence of signup.id
MaxEntries == 3        \* posts accepted by one sign-up list

\* ------------------------------------------------------- program constants
MinPasswordLength == 8
BcryptRounds == 10
ResetLifetimeDay == 24 * 60 * 60 * 1000  \* a reset link that lasts a day
ResetLifetime == 60 * 60 * 1000          \* ms
JwtLifetime == 7 * 24 * 60 * 60          \* "7d", in seconds
NULL == 0                                \* SQL NULL of reset_token / reset_expires

\* ------------------------------------------------------------------ inputs
\* Strings are sequences of characters; the empty sequence stands for a
\* missing (falsy) body field.
EmailAX == <<"a", "@", "x">>
EmailAY == <<"a", "@", "y">>
Emails == {EmailAX, EmailAY}
Password1 == <<"p", "a", "s", "s", "w", "o", "r", "d">>
Password2 == <<"n", "e", "w", "p", "a", "s", "s", "1">>
ShortPassword == <<"s", "h", "o", "r", "t">>
\* the salt takes part in no comparison
Salts == {1}
\* the token of a reset request: any value randomBytes may draw (NULL: missing)
ResetTokens == 1 .. MaxTokens
NewPasswords == {Password2}
Reqs == 1 .. MaxReq
\* the instants at which the clock is observed: the start and the expiry of
\* a reset token drawn at the start; the start, the last millisecond before
\* and the expiry of a bearer token signed at the start
ResetInstants == {0, ResetLifetime}
JwtInstants == {0, JwtLifetime * 1000 - 1, JwtLifetime * 1000}
\* well-formed request bodies of signin and of signup
Credentials == {EmailAX, EmailAY} \X {Password1, Password2}
Registrations == {EmailAX, EmailAY} \X {Password1}
\* bodies with a missing field or a short password
Malformed == {<<<<>>, Password1>>, <<EmailAX, <<>>>>, <<EmailAX, ShortPassword>>}

VARIABLES
    signup,     \* the signup table: a sequence of rows in insertion order
    nextId,     \* the SERIAL sequence behind signup.id
    nextToken,  \* number of reset tokens drawn from crypto.randomBytes so far
    now,        \* the clock, ms
    mails,      \* messages handed to transporter.sendMail, with their outcome
    req,        \* the request slots
    accounts,   \* history: <<email, password>> of every signup answered 201
    consumed,   \* history: per reset token, the resets it has authorized
    lastReset,  \* history: per email, the password of the latest reset
    lists,      \* the waitlist and funder tables: rows in insertion order
    files       \* ./data/Waitlist.json and ./data/Funder.json: arrays of entries

vars == <<signup, nextId, nextToken, now, mails, req,
          accounts, consumed, lastReset, lists, files>>

\* ----------------------------------------------------------------- helpers
\* email.split('@')[0]
RECURSIVE LocalPart(_)
LocalPart(s) ==
    IF s = <<>> \/ Head(s) = "@" THEN <<>>
    ELSE <<Head(s)>> \o LocalPart(Tail(s))

\* bcrypt.hash(password, 10): a salted one-way digest.  The digest is kept
\* as the pair (salt, plaintext) and is only ever read through Compare, which
\* accepts exactly the hashed plaintext (passwords here are far shorter than
\* the 72 bytes bcrypt reads).
Hash(password, salt) == [salt |-> salt, rounds |-> BcryptRounds, of |-> password]

\* a comparison that accepts every password
CompareAny(password, digest) == digest.of = digest.of

\* bcrypt.compare(password, digest)
Compare(password, digest) == digest.of = password

\* a token signed for the id that the sequence hands out next
generateTokenOffByOne(user, t) ==
    [jwt |-> TRUE, id |-> user.id + 1, email |-> user.email, username |-> user.username,
     iat |-> t \div 1000, exp |-> (t \div 1000) + JwtLifetime, sig |-> "signed"]

\* a token signed with expiresIn: 0
generateTokenExpired(user, t) ==
    [jwt |-> TRUE, id |-> user.id, email |-> user.email, username |-> user.username,
     iat |-> t \div 1000, exp |-> t \div 1000, sig |-> "signed"]

\* jwt.sign({id, email, username}, secret, {expiresIn: "7d"})
generateToken(user, t) ==
    [jwt |-> TRUE, id |-> user.id, email |-> user.email, username |-> user.username,
     iat |-> t \div 1000, exp |-> (t \div 1000) + JwtLifetime, sig |-> "signed"]

\* a verification that still accepts a token in the second of its exp
jwtVerifiesInclusive(token, t) ==
    /\ token.jwt
    /\ token.sig = "signed"
    /\ (t \div 1000) <= token.exp

\* jwt.verify(token, secret) returns the claims; FALSE here means it throws
jwtVerifies(token, t) ==
    /\ token.jwt
    /\ token.sig = "signed"
    /\ (t \div 1000) < token.exp

\* a part of an Authorization header that is no token of this service
Word(text) == [jwt |-> FALSE, text |-> text]

\* authHeader.split(" ")[0]
FirstPart(header) == header[1]

\* authHeader.split(" ")[1]; undefined is a word that no token equals
SecondPart(header) == IF Len(header) >= 2 THEN header[2] ELSE Word("undefined")

\* SELECT * FROM signup WHERE username = $1
SelectByUsername(email) == SelectSeq(signup, LAMBDA row : row.username = email)

\* SELECT * FROM signup WHERE email = $1
SelectByEmail(email) == SelectSeq(signup, LAMBDA row : row.email = email)

\* SELECT * FROM signup WHERE reset_token=$1 AND reset_expires >= NOW()
SelectByResetTokenInclusive(token) ==
    SelectSeq(signup, LAMBDA row : row.reset_token # NULL /\ row.reset_token = token
                                   /\ row.reset_expires >= now)

\* SELECT * FROM signup WHERE reset_token=$1 AND reset_expires > NOW()
SelectByResetToken(token) ==
    SelectSeq(signup, LAMBDA row : row.reset_token # NULL /\ row.reset_token = token
                                   /\ row.reset_expires > now)

\* SELECT * FROM signup WHERE id=$1
SelectAllById(id) == SelectSeq(signup, LAMBDA row : row.id = id)

\* SELECT id, username, email, joined_at FROM signup WHERE id=$1
SelectById(id) ==
    LET rows == SelectSeq(signup, LAMBDA row : row.id = id)
    IN [i \in 1 .. Len(rows) |->
           [id |-> rows[i].id, username |-> rows[i].username,
            email |-> rows[i].email, joined_at |-> rows[i].joined_at]]

\* the UNIQUE constraints of the signup table (error 23505 when violated)
UniqueViolation(email, username) ==
    \E i \in 1 .. Len(signup) :
        signup[i].email = email \/ signup[i].username = username

\* the two sign-up lists, each a table of the database or a JSON file
Lists == {"waitlist", "funder"}

Idle == [kind |-> "none", pc |-> "idle"]

\* a new request takes the first slot that is not serving one
Busy(r) == req[r].pc \notin {"idle", "done"}
Free(r) == ~Busy(r) /\ \A q \in 1 .. r - 1 : Busy(q)

\* res.status(status).json({message})
Answer(rec, status, message) ==
    [rec EXCEPT !.pc = "done"] @@ [resp |-> [status |-> status, message |-> message]]

Init ==
    /\ signup = <<>>
    /\ nextId = 1
    /\ nextToken = 0
    /\ now = 0
    /\ mails = {}
    /\ req = [r \in Reqs |-> Idle]
    /\ accounts = {}
    /\ consumed = [t \in {} |-> 0]
    /\ lastReset = [e \in {} |-> <<>>]
    /\ lists = [l \in Lists |-> <<>>]
    /\ files = [l \in Lists |-> <<>>]

\* ------------------------------------------------------ POST /api/signup
StartSignup(r, email, password) ==
    /\ Free(r)
    /\ nextId + Cardinality({q \in Reqs : Busy(q) /\ req[q].kind = "signup"}) <= MaxId
    /\ LET rec == [kind |-> "signup", pc |-> "select", email |-> email,
                   password |-> password,
                   registered |-> \E a \in accounts : a[1] = email,
                   clash |-> \E i \in 1 .. Len(signup) :
                                /\ signup[i].username = LocalPart(email)
                                /\ signup[i].email # email]
       IN IF email = <<>> \/ password = <<>>
          THEN req' = [req EXCEPT ![r] = Answer(rec, 400, "Email and password are required")]
          ELSE IF Len(password) < MinPasswordLength
          THEN req' = [req EXCEPT ![r] =
                          Answer(rec, 400, "Password must be at least 8 characters")]
          ELSE req' = [req EXCEPT ![r] = rec]
    /\ UNCHANGED <<signup, nextId, nextToken, now, mails,
                   accounts, consumed, lastReset, lists, files>>

SignupSelect(r) ==
    /\ req[r].kind = "signup" /\ req[r].pc = "select"
    /\ LET existing == SelectByEmail(req[r].email)
       IN IF Len(existing) > 0
          THEN req' = [req EXCEPT ![r] = Answer(@, 400, "User already exists")]
          ELSE req' = [req EXCEPT ![r] = [@ EXCEPT !.pc = "hash"] @@
                         [username |-> LocalPart(req[r].email)]]
    /\ UNCHANGED <<signup, nextId, nextToken, now, mails,
                   accounts, consumed, lastReset, lists, files>>

SignupHash(r, salt) ==
    /\ req[r].kind = "signup" /\ req[r].pc = "hash"
    /\ req' = [req EXCEPT ![r] = [@ EXCEPT !.pc = "insert"] @@
                  [hashedPassword |-> Hash(req[r].password, salt)]]
    /\ UNCHANGED <<signup, nextId, nextToken, now, mails,
                   accounts, consumed, lastReset, lists, files>>

SignupInsert(r) ==
    /\ req[r].kind = "signup" /\ req[r].pc = "insert"
    /\ nextId' = nextId + 1
    /\ IF UniqueViolation(req[r].email, req[r].username)
       THEN /\ req' = [req EXCEPT ![r] = Answer(@, 500, "Server error during signup")]
            /\ UNCHANGED <<signup, mails, accounts>>
       ELSE LET user == [id |-> nextId, username |-> req[r].username,
                         email |-> req[r].email,
                         password |-> req[r].hashedPassword,
                         reset_token |-> NULL, reset_expires |-> NULL,
                         joined_at |-> now]
                token == generateToken(user, now)
            IN /\ signup' = Append(signup, user)
               /\ mails' = mails \cup {[to |-> req[r].email, subject |-> "welcome",
                                         token |-> NULL, state |-> "pending"]}
               /\ accounts' = accounts \cup {<<req[r].email, req[r].password>>}
               /\ req' = [req EXCEPT ![r] = [@ EXCEPT !.pc = "done"] @@
                            [resp |-> [status |-> 201,
                                       message |-> "Account created successfully",
                                       token |-> token,
                                       user |-> [id |-> user.id, email |-> user.email,
                                                 username |-> user.username,
                                                 createdAt |-> user.joined_at]]]]
    /\ UNCHANGED <<nextToken, now, consumed, lastReset, lists, files>>

\* ------------------------------------------------------ POST /api/signin
InvalidCredentials == "Invalid email or password"

\* an answer that names the reason
NoSuchAccount(rec) ==
    Answer(rec, 404, "No account with that email") @@ [found |-> FALSE]

\* if (!user) return res.status(401).json({ message: "Invalid email or password" })
UnknownEmail(rec) == Answer(rec, 401, InvalidCredentials) @@ [found |-> FALSE]

StartSignin(r, email, password) ==
    /\ Free(r)
    /\ LET rec == [kind |-> "signin", pc |-> "select", email |-> email,
                   password |-> password,
                   account |-> {a \in accounts : a[1] = email},
                   latest |-> IF email \in DOMAIN lastReset
                              THEN {lastReset[email]} ELSE {},
                   raced |-> FALSE]
       IN IF email = <<>> \/ password = <<>>
          THEN req' = [req EXCEPT ![r] = Answer(rec, 400, "Email and password required")]
          ELSE req' = [req EXCEPT ![r] = rec]
    /\ UNCHANGED <<signup, nextId, nextToken, now, mails,
                   accounts, consumed, lastReset, lists, files>>

SigninSelect(r) ==
    /\ req[r].kind = "signin" /\ req[r].pc = "select"
    /\ LET rows == SelectByEmail(req[r].email)
       IN IF rows = <<>>
          THEN req' = [req EXCEPT ![r] = UnknownEmail(@)]
          ELSE req' = [req EXCEPT ![r] = [@ EXCEPT !.pc = "compare"] @@
                                         [found |-> TRUE, user |-> rows[1]]]
    /\ UNCHANGED <<signup, nextId, nextToken, now, mails,
                   accounts, consumed, lastReset, lists, files>>

SigninCompare(r) ==
    /\ req[r].kind = "signin" /\ req[r].pc = "compare"
    /\ LET user == req[r].user
           validPassword == Compare(req[r].password, user.password)
           token == generateToken(user, now)
       IN IF ~validPassword
          THEN req' = [req EXCEPT ![r] = Answer(@, 401, InvalidCredentials)]
          ELSE req' = [req EXCEPT ![r] = [@ EXCEPT !.pc = "done"] @@
                         [at |-> now,
                          resp |-> [status |-> 200,
                                    message |-> "Sign in successful",
                                    token |-> token,
                                    user |-> [id |-> user.id,
                                              username |-> user.username,
                                              email |-> user.email,
                                              createdAt |-> user.joined_at]]]]
    /\ UNCHANGED <<signup, nextId, nextToken, now, mails, accounts, consumed, lastReset,
                   lists, files>>

\* --------------------------------------------- POST /api/forgot-password
ResetLinkSent == "If that email exists, we sent a reset link."

StartForgot(r, email) ==
    /\ Free(r)
    /\ nextToken + Cardinality({q \in Reqs : Busy(q) /\ req[q].kind = "forgot"
                                             /\ req[q].pc = "select"}) < MaxTokens
    /\ LET rec == [kind |-> "forgot", pc |-> "select", email |-> email]
       IN IF email = <<>>
          THEN req' = [req EXCEPT ![r] = Answer(rec, 400, "Email is required")]
          ELSE req' = [req EXCEPT ![r] = rec]
    /\ UNCHANGED <<signup, nextId, nextToken, now, mails,
                   accounts, consumed, lastReset, lists, files>>

\* crypto.randomBytes(32) never repeats a value: the tokens are numbered
ForgotSelect(r) ==
    /\ req[r].kind = "forgot" /\ req[r].pc = "select"
    /\ LET rows == SelectByEmail(req[r].email)
       IN IF rows = <<>>
          THEN /\ req' = [req EXCEPT ![r] = Answer(@, 200, ResetLinkSent)]
               /\ UNCHANGED nextToken
          ELSE /\ nextToken' = nextToken + 1
               /\ req' = [req EXCEPT ![r] = [@ EXCEPT !.pc = "update"] @@
                            [user |-> rows[1], token |-> nextToken + 1,
                             readAt |-> now,
                             expires |-> now + ResetLifetime]]
    /\ UNCHANGED <<signup, nextId, now, mails, accounts, consumed, lastReset,
                   lists, files>>

\* UPDATE signup SET reset_token=$1, reset_expires=COALESCE(reset_expires,$2)
\* WHERE email=$3
SetResetTokenKeepExpiry(table, email, token, expires) ==
    [i \in 1 .. Len(table) |->
        IF table[i].email = email
        THEN [table[i] EXCEPT !.reset_token = token,
                              !.reset_expires = IF @ = NULL THEN expires ELSE @]
        ELSE table[i]]

\* UPDATE signup SET reset_token=$1, reset_expires=$2, password='' WHERE email=$3
SetResetTokenAndLock(table, email, token, expires) ==
    [i \in 1 .. Len(table) |->
        IF table[i].email = email
        THEN [table[i] EXCEPT !.reset_token = token, !.reset_expires = expires,
                              !.password = [@ EXCEPT !.of = <<>>]]
        ELSE table[i]]

\* UPDATE signup SET reset_token=$1, reset_expires=$2 WHERE email=$3
SetResetToken(table, email, token, expires) ==
    [i \in 1 .. Len(table) |->
        IF table[i].email = email
        THEN [table[i] EXCEPT !.reset_token = token, !.reset_expires = expires]
        ELSE table[i]]

ForgotUpdate(r) ==
    /\ req[r].kind = "forgot" /\ req[r].pc = "update"
    /\ signup' = SetResetToken(signup, req[r].email, req[r].token, req[r].expires)
    /\ mails' = mails \cup {[to |-> req[r].email, subject |-> "reset",
                              token |-> req[r].token, state |-> "pending"]}
    /\ req' = [req EXCEPT ![r] = Answer(@, 200, ResetLinkSent)]
    /\ UNCHANGED <<nextId, nextToken, now, accounts, consumed, lastReset,
                   lists, files>>

\* ---------------------------------------------- POST /api/reset-password
InvalidResetToken == "Invalid or expired reset token"
PasswordReset == "Password reset successfully! You can now sign in."

\* what the table holds for a reset token, expired or not
Holding(token) == SelectSeq(signup, LAMBDA row : row.reset_token = token)

\* a handler without the check of newPassword.length
StartResetLenient(r, token, newPassword) ==
    /\ Free(r)
    /\ LET rec == [kind |-> "reset", pc |-> "select", token |-> token,
                   newPassword |-> newPassword,
                   replay |-> token \in DOMAIN consumed]
       IN IF token = NULL \/ newPassword = <<>>
          THEN req' = [req EXCEPT ![r] = Answer(rec, 400, "Token and new password required")]
          ELSE req' = [req EXCEPT ![r] = rec]
    /\ UNCHANGED <<signup, nextId, nextToken, now, mails,
                   accounts, consumed, lastReset, lists, files>>

StartReset(r, token, newPassword) ==
    /\ Free(r)
    /\ LET rec == [kind |-> "reset", pc |-> "select", token |-> token,
                   newPassword |-> newPassword,
                   replay |-> token \in DOMAIN consumed]
       IN IF token = NULL \/ newPassword = <<>>
          THEN req' = [req EXCEPT ![r] = Answer(rec, 400, "Token and new password required")]
          ELSE IF Len(newPassword) < MinPasswordLength
          THEN req' = [req EXCEPT ![r] =
                          Answer(rec, 400, "Password must be at least 8 characters")]
          ELSE req' = [req EXCEPT ![r] = rec]
    /\ UNCHANGED <<signup, nextId, nextToken, now, mails,
                   accounts, consumed, lastReset, lists, files>>

ResetSelect(r) ==
    /\ req[r].kind = "reset" /\ req[r].pc = "select"
    /\ LET rows == SelectByResetToken(req[r].token)
           seen == [lookedAt |-> now,
                    held |-> {row.reset_expires : row \in
                                 {Holding(req[r].token)[i] :
                                     i \in 1 .. Len(Holding(req[r].token))}}]
       IN IF rows = <<>>
          THEN req' = [req EXCEPT ![r] = Answer(@, 400, InvalidResetToken) @@ seen]
          ELSE req' = [req EXCEPT ![r] = [@ EXCEPT !.pc = "hash"] @@
                                         [user |-> rows[1]] @@ seen]
    /\ UNCHANGED <<signup, nextId, nextToken, now, mails,
                   accounts, consumed, lastReset, lists, files>>

ResetHash(r, salt) ==
    /\ req[r].kind = "reset" /\ req[r].pc = "hash"
    /\ req' = [req EXCEPT ![r] = [@ EXCEPT !.pc = "update"] @@
                  [hashedPassword |-> Hash(req[r].newPassword, salt)]]
    /\ UNCHANGED <<signup, nextId, nextToken, now, mails,
                   accounts, consumed, lastReset, lists, files>>

\* UPDATE signup SET password=$1 WHERE id=$2
SetPasswordOnly(table, id, hashedPassword) ==
    [i \in 1 .. Len(table) |->
        IF table[i].id = id
        THEN [table[i] EXCEPT !.password = hashedPassword]
        ELSE table[i]]

\* UPDATE signup SET password=$1, reset_token=NULL, reset_expires=NULL WHERE id=$2
SetPassword(table, id, hashedPassword) ==
    [i \in 1 .. Len(table) |->
        IF table[i].id = id
        THEN [table[i] EXCEPT !.password = hashedPassword,
                              !.reset_token = NULL, !.reset_expires = NULL]
        ELSE table[i]]

ResetUpdate(r) ==
    /\ req[r].kind = "reset" /\ req[r].pc = "update"
    /\ signup' = SetPassword(signup, req[r].user.id, req[r].hashedPassword)
    /\ consumed' = [t \in DOMAIN consumed \cup {req[r].token} |->
                       IF t = req[r].token
                       THEN (IF t \in DOMAIN consumed THEN consumed[t] ELSE 0) + 1
                       ELSE consumed[t]]
    /\ lastReset' = [e \in DOMAIN lastReset \cup {req[r].user.email} |->
                        IF e = req[r].user.email THEN req[r].newPassword
                        ELSE lastReset[e]]
    /\ req' = [q \in Reqs |->
                  IF q = r THEN Answer(req[r], 200, PasswordReset)
                  ELSE IF Busy(q) /\ req[q].kind = "signin"
                          /\ req[q].email = req[r].user.email
                       THEN [req[q] EXCEPT !.raced = TRUE]
                       ELSE req[q]]
    /\ UNCHANGED <<nextId, nextToken, now, mails, accounts, lists, files>>

\* ------------------------------------- verifyToken, GET /api/me, /api/profile
\* the middleware: the response it sends, or the claims it puts in req.user
verifyToken(rec, header) ==
    IF header = <<>>
    THEN [rec EXCEPT !.pc = "done"] @@
         [resp |-> [status |-> 401, success |-> FALSE, error |-> "Missing token"]]
    ELSE LET token == SecondPart(header)
         IN IF jwtVerifies(token, now)
            THEN rec @@ [user |-> [id |-> token.id, email |-> token.email,
                                   username |-> token.username,
                                   iat |-> token.iat, exp |-> token.exp]]
            ELSE [rec EXCEPT !.pc = "done"] @@
                 [resp |-> [status |-> 401, success |-> FALSE,
                            error |-> "Invalid or expired token"]]

\* the tokens signed with the service's secret for a row of the table: those
\* a signup or a signin of that account can have returned by now
Signed ==
    UNION {{generateToken(signup[i], t) :
                t \in {u \in JwtInstants : signup[i].joined_at <= u /\ u <= now}} :
            i \in 1 .. Len(signup)}

\* the Authorization headers a client sends: none, a scheme alone, a scheme
\* and no token of this service, a scheme and a signed token, the same with
\* its signature altered, and a signed token without a scheme
Headers ==
    {<<>>, <<Word("Bearer")>>, <<Word("Bearer"), Word("garbage")>>}
        \cup {<<Word("Bearer"), t>> : t \in Signed}
        \cup {<<Word("Bearer"), [t EXCEPT !.sig = "altered"]>> : t \in Signed}
        \cup {<<t>> : t \in Signed}

\* a token signed with the service's secret whose id is the id of no row: the
\* row was removed by hand, the table was recreated, or the token was signed
\* by whoever knows the secret (index.js:80 falls back to a published one)
Orphaned ==
    {<<Word("Bearer"),
       generateToken([id |-> MaxId + 1, email |-> EmailAY, username |-> LocalPart(EmailAY)],
                     0)>>}

StartMe(r, header) ==
    /\ Free(r)
    /\ req' = [req EXCEPT ![r] =
                  verifyToken([kind |-> "me", pc |-> "select", header |-> header,
                               at |-> now, reads |-> 0], header)]
    /\ UNCHANGED <<signup, nextId, nextToken, now, mails,
                   accounts, consumed, lastReset, lists, files>>

MeSelect(r) ==
    /\ req[r].kind = "me" /\ req[r].pc = "select"
    /\ LET rows == SelectById(req[r].user.id)
       IN IF Len(rows) = 0
          THEN req' = [req EXCEPT ![r] = Answer([@ EXCEPT !.reads = @ + 1],
                                                404, "User not found")]
          ELSE req' = [req EXCEPT ![r] = [@ EXCEPT !.pc = "done", !.reads = @ + 1] @@
                         [resp |-> [status |-> 200, user |-> rows[1]]]]
    /\ UNCHANGED <<signup, nextId, nextToken, now, mails,
                   accounts, consumed, lastReset, lists, files>>

StartProfile(r, header) ==
    /\ Free(r)
    /\ req' = [req EXCEPT ![r] =
                  verifyToken([kind |-> "profile", pc |-> "select", header |-> header,
                               at |-> now, reads |-> 0], header)]
    /\ UNCHANGED <<signup, nextId, nextToken, now, mails,
                   accounts, consumed, lastReset, lists, files>>

\* rows[0] of an empty result is undefined and JSON drops the field
ProfileSelect(r) ==
    /\ req[r].kind = "profile" /\ req[r].pc = "select"
    /\ LET rows == SelectById(req[r].user.id)
       IN IF Len(rows) = 0
          THEN req' = [req EXCEPT ![r] = [@ EXCEPT !.pc = "done", !.reads = @ + 1] @@
                         [resp |-> [status |-> 200, success |-> TRUE]]]
          ELSE req' = [req EXCEPT ![r] = [@ EXCEPT !.pc = "done", !.reads = @ + 1] @@
                         [resp |-> [status |-> 200, success |-> TRUE,
                                    user |-> rows[1]]]]
    /\ UNCHANGED <<signup, nextId, nextToken, now, mails,
                   accounts, consumed, lastReset, lists, files>>

\* ------------------------------------ POST /api/Waitlist, POST /api/Funder
\* a table created without the UNIQUE constraint, a check that finds nothing
NoEmail(rows, email) == FALSE

\* email TEXT UNIQUE of the tables; data.find((person) => person.email === email)
HasEmail(rows, email) == \E i \in 1 .. Len(rows) : rows[i].email = email

Duplicate(list) ==
    IF list = "waitlist" THEN "Already on the waitlist"
    ELSE "Already registered as a funder"

Added(list) ==
    IF list = "waitlist" THEN "Added to waitlist!"
    ELSE "Thank you for supporting Joyxora!"

\* res.status(status).json({success: false, error})
Refuse(rec, status, error) ==
    [rec EXCEPT !.pc = "done"] @@
    [resp |-> [status |-> status, success |-> FALSE, error |-> error]]

\* res.json({success: true, message})
Accept(rec, message) ==
    [rec EXCEPT !.pc = "done"] @@
    [resp |-> [status |-> 200, success |-> TRUE, message |-> message]]

\* the database-backed routes
StartList(r, list, email) ==
    /\ Free(r)
    /\ Len(lists[list]) < MaxEntries
    /\ LET rec == [kind |-> "list", pc |-> "insert", list |-> list, email |-> email]
       IN IF email = <<>>
          THEN req' = [req EXCEPT ![r] = Refuse(rec, 400, "Email is required")]
          ELSE req' = [req EXCEPT ![r] = rec]
    /\ UNCHANGED <<signup, nextId, nextToken, now, mails,
                   accounts, consumed, lastReset, lists, files>>

\* INSERT INTO waitlist (name, email) VALUES ($1, $2), and the answer
ListInsert(r) ==
    /\ req[r].kind = "list" /\ req[r].pc = "insert"
    /\ LET list == req[r].list
       IN IF HasEmail(lists[list], req[r].email)
          THEN /\ req' = [req EXCEPT ![r] = Refuse(@, 400, Duplicate(list))]
               /\ UNCHANGED lists
          ELSE /\ lists' = [lists EXCEPT ![list] =
                               Append(@, [email |-> req[r].email, joined_at |-> now])]
               /\ req' = [req EXCEPT ![r] = Accept(@, Added(list))]
    /\ UNCHANGED <<signup, nextId, nextToken, now, mails,
                   accounts, consumed, lastReset, files>>

\* the INSERT rejects with another code than 23505
ListRejects(r) ==
    /\ req[r].kind = "list" /\ req[r].pc = "insert"
    /\ req' = [req EXCEPT ![r] = Refuse(@, 500, "Database error")]
    /\ UNCHANGED <<signup, nextId, nextToken, now, mails,
                   accounts, consumed, lastReset, lists, files>>

\* what reading and writing the JSON file can do
FileOutcomes == {"ok", "unreadable", "unwritable"}

\* the file-backed routes: the handler awaits nothing (readFileSync,
\* writeFileSync), so a request is read, checked, written and answered in
\* one step
PostFile(r, list, email, outcome) ==
    /\ Free(r)
    /\ Len(files[list]) < MaxEntries
    /\ LET rec == [kind |-> "file", pc |-> "read", list |-> list, email |-> email]
           refuse(status, error) ==
               /\ req' = [req EXCEPT ![r] = Refuse(rec, status, error)]
               /\ UNCHANGED files
       IN IF email = <<>> THEN refuse(400, "Email is required")
          ELSE IF outcome = "unreadable"
          THEN refuse(500, IF list = "waitlist" THEN "Error reading waitlist data"
                           ELSE "Error reading funder data")
          ELSE IF HasEmail(files[list], email) THEN refuse(400, Duplicate(list))
          ELSE IF outcome = "unwritable"
          THEN refuse(500, IF list = "waitlist" THEN "Error saving to waitlist"
                           ELSE "Error saving to funder data")
          ELSE /\ files' = [files EXCEPT ![list] =
                               Append(@, [id |-> now, email |-> email, joinedAt |-> now])]
               /\ req' = [req EXCEPT ![r] = Accept(rec, Added(list))]
    /\ UNCHANGED <<signup, nextId, nextToken, now, mails,
                   accounts, consumed, lastReset, lists>>

\* ------------------------------------------- rejected calls, mail outcomes
\* a catch block that returns the error: res.status(500).json({message: err.message})
ServerErrorDetailed(kind) ==
    [status |-> 500, message |-> "connect ECONNREFUSED 127.0.0.1:5432"]

\* the answer of a handler's catch block
ServerError(kind) ==
    CASE kind = "signup" -> [status |-> 500, message |-> "Server error during signup"]
      [] kind = "signin" -> [status |-> 500, message |-> "Server error during signin"]
      [] kind = "forgot" -> [status |-> 500, message |-> "Server error"]
      [] kind = "reset" -> [status |-> 500, message |-> "Server error"]
      [] kind = "me" -> [status |-> 500, message |-> "Could not fetch user"]
      [] kind = "profile" -> [status |-> 500, success |-> FALSE,
                              error |-> "Could not fetch profile"]

\* a rejection outside the try block: no answer is sent
RejectsUncaught(r) ==
    /\ Busy(r)
    /\ req' = [req EXCEPT ![r] = [@ EXCEPT !.pc = "hung"]]
    /\ UNCHANGED <<signup, nextId, nextToken, now, mails,
                   accounts, consumed, lastReset, lists, files>>

\* the pool.query or bcrypt call that request r awaits rejects (the store is
\* unreachable, the call times out): the statement is not applied and the
\* catch block answers
Rejects(r) ==
    /\ Busy(r)
    /\ req' = [req EXCEPT ![r] = [@ EXCEPT !.pc = "done"] @@
                                 [resp |-> ServerError(req[r].kind), threw |-> TRUE]]
    /\ UNCHANGED <<signup, nextId, nextToken, now, mails,
                   accounts, consumed, lastReset, lists, files>>

\* a catch that answers the request: res.status(500).json(...)
MailErrorAnswers(rec) ==
    IF rec.pc = "done" THEN [rec EXCEPT !.resp = ServerError(rec.kind)] ELSE rec

\* .catch((err) => console.error("... email error:", err))
MailErrorLogged(rec) == rec

\* the promise of transporter.sendMail settles, some time after the handler
\* handed the message over: it resolves, or it rejects and the .catch logs.
\* A message that stays pending is a dispatch that never completes.
MailSettles(m, outcome) ==
    /\ m \in mails /\ m.state = "pending"
    /\ mails' = (mails \ {m}) \cup {[m EXCEPT !.state = outcome]}
    /\ req' = [r \in Reqs |->
                  IF outcome = "failed" /\ req[r].kind \in {"signup", "forgot"}
                     /\ req[r].email = m.to
                  THEN MailErrorLogged(req[r]) ELSE req[r]]
    /\ UNCHANGED <<signup, nextId, nextToken, now, accounts, consumed, lastReset,
                   lists, files>>

\* ------------------------------------------------------------------ clock
Tick(t) ==
    /\ t > now
    /\ now' = t
    /\ UNCHANGED <<signup, nextId, nextToken, mails, req,
                   accounts, consumed, lastReset, lists, files>>

Account ==
    \/ \E r \in Reqs, c \in Registrations : StartSignup(r, c[1], c[2])
    \/ \E r \in Reqs : SignupSelect(r)
    \/ \E r \in Reqs, s \in Salts : SignupHash(r, s)
    \/ \E r \in Reqs : SignupInsert(r)
    \/ \E r \in Reqs, c \in Credentials : StartSignin(r, c[1], c[2])
    \/ \E r \in Reqs : SigninSelect(r)
    \/ \E r \in Reqs : SigninCompare(r)
    \/ \E r \in Reqs, e \in Emails : StartForgot(r, e)
    \/ \E r \in Reqs : ForgotSelect(r)
    \/ \E r \in Reqs : ForgotUpdate(r)
    \/ \E r \in Reqs, t \in ResetTokens, p \in NewPasswords : StartReset(r, t, p)
    \/ \E r \in Reqs : ResetSelect(r)
    \/ \E r \in Reqs, s \in Salts : ResetHash(r, s)
    \/ \E r \in Reqs : ResetUpdate(r)

\* Spec: the requests that read and write accounts, with the clock passing the
\* expiry of a reset token
Next ==
    \/ Account
    \/ \E t \in ResetInstants : Tick(t)

Spec == Init /\ [][Next]_vars

\* SpecAuth: the protected routes, which only read the table, next to the
\* signups that fill it, with the clock passing the expiry of a bearer token
NextAuth ==
    \/ \E r \in Reqs, c \in Registrations : StartSignup(r, c[1], c[2])
    \/ \E r \in Reqs : SignupSelect(r)
    \/ \E r \in Reqs, s \in Salts : SignupHash(r, s)
    \/ \E r \in Reqs : SignupInsert(r)
    \/ \E r \in Reqs, h \in Headers \cup Orphaned : StartMe(r, h)
    \/ \E r \in Reqs : MeSelect(r)
    \/ \E r \in Reqs, h \in Headers \cup Orphaned : StartProfile(r, h)
    \/ \E r \in Reqs : ProfileSelect(r)
    \/ \E t \in JwtInstants : Tick(t)

SpecAuth == Init /\ [][NextAuth]_vars

\* SpecSerial: every route and every body, well-formed or not, with one
\* request answered before the next arrives
Quiet == \A q \in Reqs : ~Busy(q)

NextSerial ==
    \/ Quiet /\ \E r \in Reqs, c \in Registrations \cup Malformed : StartSignup(r, c[1], c[2])
    \/ \E r \in Reqs : SignupSelect(r)
    \/ \E r \in Reqs, s \in Salts : SignupHash(r, s)
    \/ \E r \in Reqs : SignupInsert(r)
    \/ Quiet /\ \E r \in Reqs, c \in Credentials \cup Malformed : StartSignin(r, c[1], c[2])
    \/ \E r \in Reqs : SigninSelect(r)
    \/ \E r \in Reqs : SigninCompare(r)
    \/ Quiet /\ \E r \in Reqs, e \in Emails \cup {<<>>} : StartForgot(r, e)
    \/ \E r \in Reqs : ForgotSelect(r)
    \/ \E r \in Reqs : ForgotUpdate(r)
    \/ Quiet /\ \E r \in Reqs, t \in ResetTokens \cup {NULL},
                       p \in NewPasswords \cup {ShortPassword, <<>>} : StartReset(r, t, p)
    \/ \E r \in Reqs : ResetSelect(r)
    \/ \E r \in Reqs, s \in Salts : ResetHash(r, s)
    \/ \E r \in Reqs : ResetUpdate(r)
    \/ Quiet /\ \E r \in Reqs, h \in Headers : StartMe(r, h)
    \/ \E r \in Reqs : MeSelect(r)
    \/ Quiet /\ \E r \in Reqs, h \in Headers : StartProfile(r, h)
    \/ \E r \in Reqs : ProfileSelect(r)
    \/ \E t \in ResetInstants \cup JwtInstants : Tick(t)

SpecSerial == Init /\ [][NextSerial]_vars

\* SpecWhole: every route in any interleaving, for one account and with the
\* clock standing still, with store and bcrypt calls that reject
Bearers == {<<Word("Bearer"), t>> : t \in Signed} \cup Orphaned

NextWhole ==
    \/ \E r \in Reqs : StartSignup(r, EmailAX, Password1)
    \/ \E r \in Reqs : SignupSelect(r)
    \/ \E r \in Reqs, s \in Salts : SignupHash(r, s)
    \/ \E r \in Reqs : SignupInsert(r)
    \/ \E r \in Reqs, p \in {Password1, Password2} : StartSignin(r, EmailAX, p)
    \/ \E r \in Reqs : SigninSelect(r)
    \/ \E r \in Reqs : SigninCompare(r)
    \/ \E r \in Reqs : StartForgot(r, EmailAX)
    \/ \E r \in Reqs : ForgotSelect(r)
    \/ \E r \in Reqs : ForgotUpdate(r)
    \/ \E r \in Reqs, t \in ResetTokens, p \in NewPasswords : StartReset(r, t, p)
    \/ \E r \in Reqs : ResetSelect(r)
    \/ \E r \in Reqs, s \in Salts : ResetHash(r, s)
    \/ \E r \in Reqs : ResetUpdate(r)
    \/ \E r \in Reqs, h \in Bearers : StartMe(r, h)
    \/ \E r \in Reqs : MeSelect(r)
    \/ \E r \in Reqs, h \in Bearers : StartProfile(r, h)
    \/ \E r \in Reqs : ProfileSelect(r)
    \/ \E r \in Reqs : Rejects(r)

SpecWhole == Init /\ [][NextWhole]_vars

\* SpecFaults: SpecSerial with store and bcrypt calls that reject
NextFaults ==
    \/ NextSerial
    \/ \E r \in Reqs : Rejects(r)

SpecFaults == Init /\ [][NextFaults]_vars

\* the call that request r awaits returns or rejects, and the handler runs on
Step(r) ==
    \/ SignupSelect(r)
    \/ \E s \in Salts : SignupHash(r, s)
    \/ SignupInsert(r)
    \/ SigninSelect(r)
    \/ SigninCompare(r)
    \/ ForgotSelect(r)
    \/ ForgotUpdate(r)
    \/ ResetSelect(r)
    \/ \E s \in Salts : ResetHash(r, s)
    \/ ResetUpdate(r)
    \/ MeSelect(r)
    \/ ProfileSelect(r)
    \/ Rejects(r)

\* FairFaults: SpecFaults where every store and bcrypt call that a request
\* awaits eventually returns or rejects
FairFaults == SpecFaults /\ \A r \in Reqs : WF_vars(Step(r))

\* SpecMail: the two routes that send mail, in any interleaving, with the
\* outcomes of the dispatch
MailOutcomes == {"sent", "failed"}

NextMail ==
    \/ \E r \in Reqs, c \in Registrations : StartSignup(r, c[1], c[2])
    \/ \E r \in Reqs : SignupSelect(r)
    \/ \E r \in Reqs, s \in Salts : SignupHash(r, s)
    \/ \E r \in Reqs : SignupInsert(r)
    \/ \E r \in Reqs, e \in Emails : StartForgot(r, e)
    \/ \E r \in Reqs : ForgotSelect(r)
    \/ \E r \in Reqs : ForgotUpdate(r)
    \/ \E m \in mails, o \in MailOutcomes : MailSettles(m, o)

SpecMail == Init /\ [][NextMail]_vars

\* SpecJwt: one account, its signins and its reads of /api/me, with the clock
\* observed in the middle of a second and around seven days after it
FineInstants ==
    {0, 500, JwtLifetime * 1000 - 1, JwtLifetime * 1000, JwtLifetime * 1000 + 500}

\* the tokens a signup or signin of a row can have returned by now
SignedFine ==
    UNION {{generateToken(signup[i], t) :
                t \in {u \in FineInstants : signup[i].joined_at <= u /\ u <= now}} :
            i \in 1 .. Len(signup)}

NextJwt ==
    \/ \E r \in Reqs : StartSignup(r, EmailAX, Password1)
    \/ \E r \in Reqs : SignupSelect(r)
    \/ \E r \in Reqs, s \in Salts : SignupHash(r, s)
    \/ \E r \in Reqs : SignupInsert(r)
    \/ \E r \in Reqs : StartSignin(r, EmailAX, Password1)
    \/ \E r \in Reqs : SigninSelect(r)
    \/ \E r \in Reqs : SigninCompare(r)
    \/ \E r \in Reqs, t \in SignedFine : StartMe(r, <<Word("Bearer"), t>>)
    \/ \E r \in Reqs : MeSelect(r)
    \/ \E t \in FineInstants : Tick(t)

SpecJwt == Init /\ [][NextJwt]_vars

\* SpecLists: the posts to the waitlist and to the funder list, database-backed
\* in any interleaving and file-backed
\* the bodies posted: no email or one of two to the waitlist, no email or
\* one to the funder list
Posts ==
    ({"waitlist"} \X (Emails \cup {<<>>})) \cup ({"funder"} \X {EmailAX, <<>>})

NextLists ==
    \/ \E r \in Reqs, p \in Posts : StartList(r, p[1], p[2])
    \/ \E r \in Reqs : ListInsert(r)
    \/ \E r \in Reqs : ListRejects(r)
    \/ \E r \in Reqs, p \in Posts, o \in FileOutcomes : PostFile(r, p[1], p[2], o)

SpecLists == Init /\ [][NextLists]_vars

\* ------------------------------------------------------------------ claims
IsDone(r, kind) == req[r].kind = kind /\ req[r].pc = "done"
Answered(r, status, message) ==
    /\ req[r].pc = "done"
    /\ req[r].resp = [status |-> status, message |-> message]

\* C1: a reset token authorizes at most one password change, however the
\* reset-password requests that present it interleave
C1_SingleUse == \A t \in DOMAIN consumed : consumed[t] <= 1

\* C2: a reset-password request that starts after a reset with the same token
\* has succeeded is answered "Invalid or expired reset token", and no step of
\* it changes the table
C2_ReplayRejected ==
    /\ [](\A r \in Reqs :
            (req[r].kind = "reset" /\ req[r].replay
                /\ Len(req[r].newPassword) >= MinPasswordLength) =>
                \/ req[r].pc = "select"
                \/ Answered(r, 400, InvalidResetToken))
    /\ [][\A r \in Reqs :
            (req[r].kind = "reset" /\ req[r].replay /\ req'[r] # req[r]
                /\ req'[r].kind = "reset" /\ req[r].pc # "done") =>
                signup' = signup]_vars

C2_Witness ==
    \E r \in Reqs :
        /\ IsDone(r, "reset") /\ req[r].replay
        /\ req[r].resp.status = 400
        /\ signup # <<>>

\* C3: a signup for an email whose earlier signup was answered 201 is answered
\* 400 "User already exists", and the table holds one row with that email
C3_SecondSignupConflicts ==
    \A r \in Reqs :
        (IsDone(r, "signup") /\ req[r].registered
            /\ Len(req[r].password) >= MinPasswordLength) =>
            /\ Answered(r, 400, "User already exists")
            /\ Len(SelectByEmail(req[r].email)) = 1

C3_Witness ==
    \E r \in Reqs : IsDone(r, "signup") /\ req[r].registered /\ req[r].resp.status = 400

\* a signup that found no row for its email at the SELECT
PassedSelect(r) == req[r].kind = "signup" /\ "username" \in DOMAIN req[r]

\* C4: of two signups for one email that both pass the SELECT, one is answered
\* 201, the other 400, and one row is stored
C4_RaceLoserGetsConflict ==
    \A r \in Reqs :
        (IsDone(r, "signup") /\ PassedSelect(r) /\ req[r].resp.status # 201
            /\ SelectByEmail(req[r].email) # <<>>) =>
            /\ req[r].resp.status = 400
            /\ Len(SelectByEmail(req[r].email)) = 1

\* C5: a signup that starts when its derived username is the username of a
\* row with another email is answered 400 and adds no row
C5_UsernameConflictIs400 ==
    \A r \in Reqs :
        (IsDone(r, "signup") /\ req[r].clash
            /\ Len(req[r].password) >= MinPasswordLength) =>
            /\ req[r].resp.status = 400
            /\ SelectByEmail(req[r].email) = <<>>

\* C6: a signin with the credentials of a signup answered 201, with no reset
\* of that account before the answer, is answered 200 with a token that
\* verifyToken accepts and that carries the id, email and username of the row
C6_SigninAfterSignup ==
    \A r \in Reqs :
        (IsDone(r, "signin") /\ <<req[r].email, req[r].password>> \in req[r].account
            /\ req[r].latest = {} /\ ~req[r].raced) =>
            /\ req[r].resp.status = 200
            /\ jwtVerifies(req[r].resp.token, req[r].at)
            /\ \E i \in 1 .. Len(signup) :
                  /\ signup[i].email = req[r].email
                  /\ req[r].resp.token.id = signup[i].id
                  /\ req[r].resp.token.email = signup[i].email
                  /\ req[r].resp.token.username = signup[i].username

C6_Witness ==
    \E r \in Reqs :
        /\ IsDone(r, "signin") /\ <<req[r].email, req[r].password>> \in req[r].account
        /\ req[r].latest = {} /\ ~req[r].raced
        /\ req[r].resp.status = 200
        /\ now > 0

\* C7: after a reset to q of an account registered with p # q, and until the
\* next reset, a signin with p is answered 401 and a signin with q 200
C7_SigninAfterReset ==
    \A r \in Reqs :
        (IsDone(r, "signin") /\ ~req[r].raced) =>
            \A q \in req[r].latest :
                /\ req[r].password = q => req[r].resp.status = 200
                /\ \A a \in req[r].account :
                      (a[2] # q /\ req[r].password = a[2]) =>
                          Answered(r, 401, InvalidCredentials)

C7_Witness ==
    \E r1, r2 \in Reqs :
        /\ IsDone(r1, "signin") /\ IsDone(r2, "signin")
        /\ ~req[r1].raced /\ ~req[r2].raced
        /\ req[r1].latest # {} /\ req[r2].latest # {}
        /\ req[r1].password \in req[r1].latest /\ req[r1].resp.status = 200
        /\ <<req[r2].email, req[r2].password>> \in req[r2].account
        /\ req[r2].resp.status = 401

\* C8: a reset-password request whose token is stored with expiry E passes
\* the lookup if the clock reads less than E and is answered "Invalid or
\* expired reset token" otherwise; an answer at the lookup changes no row
C8_ExpiryBoundary ==
    /\ [](\A r \in Reqs :
            (req[r].kind = "reset" /\ "lookedAt" \in DOMAIN req[r]) =>
                \A E \in req[r].held :
                    /\ req[r].lookedAt < E =>
                          \/ req[r].pc \in {"hash", "update"}
                          \/ Answered(r, 200, PasswordReset)
                    /\ req[r].lookedAt >= E => Answered(r, 400, InvalidResetToken))
    /\ [][\A r \in Reqs :
            (req[r].kind = "reset" /\ req[r].pc = "select" /\ req'[r].pc = "done") =>
                signup' = signup]_vars

C8_Witness ==
    \E r1, r2 \in Reqs :
        /\ req[r1].kind = "reset" /\ "lookedAt" \in DOMAIN req[r1]
        /\ req[r2].kind = "reset" /\ "lookedAt" \in DOMAIN req[r2]
        /\ \E E \in req[r1].held : req[r1].lookedAt < E /\ req[r1].pc # "done"
        /\ \E E \in req[r2].held : req[r2].lookedAt = E /\ req[r2].resp.status = 400

\* the protected routes
Protected == {"me", "profile"}

\* C9: the handler of a protected route runs, with req.user the token's
\* claims, only for a header whose second part is a signed, unexpired token;
\* without a header the answer is 401 "Missing token", otherwise 401 "Invalid
\* or expired token", and an answered request has read nothing from the table
C9_VerifyTokenGate ==
    \A r \in Reqs :
        req[r].kind \in Protected =>
            LET h == req[r].header
                good == /\ Len(h) >= 2 /\ h[2].jwt /\ h[2].sig = "signed"
                        /\ req[r].at \div 1000 < h[2].exp
                unauthorized(error) ==
                    /\ req[r].pc = "done" /\ req[r].reads = 0
                    /\ req[r].resp = [status |-> 401, success |-> FALSE, error |-> error]
            IN /\ good => /\ "user" \in DOMAIN req[r]
                          /\ req[r].user.id = h[2].id
                          /\ req[r].user.email = h[2].email
                          /\ req[r].user.username = h[2].username
                          /\ req[r].pc = "done" => req[r].reads = 1
               /\ h = <<>> => unauthorized("Missing token")
               /\ (h # <<>> /\ ~good) => unauthorized("Invalid or expired token")

C9_Witness ==
    \E r1, r2 \in Reqs :
        /\ req[r1].kind = "me" /\ req[r1].pc = "done" /\ req[r1].reads = 1
        /\ req[r2].kind = "profile" /\ req[r2].pc = "done" /\ req[r2].reads = 0
        /\ Len(req[r2].header) = 2 /\ req[r2].header[2].jwt
        /\ req[r2].header[2].sig = "signed"
        /\ req[r2].at \div 1000 = req[r2].header[2].exp

\* C10: a signin with an email and a password that is not answered 200 is
\* answered 401 "Invalid email or password" whether or not the email is
\* registered
C10_SigninNoEnumeration ==
    \A r1, r2 \in Reqs :
        (/\ IsDone(r1, "signin") /\ IsDone(r2, "signin")
         /\ req[r1].email # <<>> /\ req[r1].password # <<>>
         /\ req[r2].email # <<>> /\ req[r2].password # <<>>
         /\ req[r1].resp.status # 200 /\ req[r2].resp.status # 200) =>
            /\ req[r1].resp = req[r2].resp
            /\ req[r1].resp = [status |-> 401, message |-> "Invalid email or password"]

C10_Witness ==
    \E r1, r2 \in Reqs :
        /\ IsDone(r1, "signin") /\ IsDone(r2, "signin")
        /\ req[r1].email = req[r2].email /\ req[r1].password = req[r2].password
        /\ ~req[r1].found /\ req[r2].found
        /\ req[r1].resp.status = 401 /\ req[r2].resp.status = 401

\* C12: in every row reset_token and reset_expires are both NULL or both set,
\* a set expiry is no later than one hour after the present clock, and every
\* step that stores an expiry stores the clock reading of the forgot-password
\* request that takes the step plus 3,600,000 ms
C12_TokenAndExpiryPaired ==
    /\ [](\A i \in 1 .. Len(signup) :
            /\ signup[i].reset_token = NULL <=> signup[i].reset_expires = NULL
            /\ signup[i].reset_expires # NULL =>
                  signup[i].reset_expires <= now + 60 * 60 * 1000)
    /\ [][\A i \in 1 .. Len(signup) :
            (signup'[i].reset_expires # NULL
                /\ signup'[i].reset_expires # signup[i].reset_expires) =>
                \E r \in Reqs :
                    /\ req[r].kind = "forgot" /\ req[r].pc = "update"
                    /\ req'[r].pc = "done"
                    /\ req[r].email = signup[i].email
                    /\ signup'[i].reset_expires = req[r].readAt + 60 * 60 * 1000]_vars

\* a token drawn when the clock read 0 is stored after the clock has moved
C12_Witness ==
    \E i \in 1 .. Len(signup) :
        /\ signup[i].reset_token # NULL
        /\ signup[i].reset_expires = 60 * 60 * 1000
        /\ now = 60 * 60 * 1000

\* C13: every step that changes the reset_token or the reset_expires of a row
\* either clears both or stores the token and the expiry that one and the same
\* forgot-password request drew, also when two such requests for the email
\* interleave
C13_PairFromOneRequest ==
    [][\A i \in 1 .. Len(signup) :
        (signup'[i].reset_token # signup[i].reset_token
            \/ signup'[i].reset_expires # signup[i].reset_expires) =>
            \/ signup'[i].reset_token = NULL /\ signup'[i].reset_expires = NULL
            \/ \E r \in Reqs :
                  /\ req[r].kind = "forgot" /\ req[r].pc = "update"
                  /\ req'[r].pc = "done"
                  /\ signup'[i].reset_token = req[r].token
                  /\ signup'[i].reset_expires = req[r].expires]_vars

\* two forgot-password requests for one email that drew at different clock
\* readings have both answered, and the row holds the pair of the earlier draw
C13_Witness ==
    \E r1, r2 \in Reqs, i \in 1 .. Len(signup) :
        /\ IsDone(r1, "forgot") /\ IsDone(r2, "forgot")
        /\ "token" \in DOMAIN req[r1] /\ "token" \in DOMAIN req[r2]
        /\ req[r1].email = req[r2].email /\ signup[i].email = req[r1].email
        /\ req[r1].token < req[r2].token /\ req[r1].expires < req[r2].expires
        /\ signup[i].reset_token = req[r1].token
        /\ signup[i].reset_expires = req[r1].expires

\* C14: a reset-password request changes the password only while the token it
\* presented is the one stored in the row: once a forgot-password request has
\* stored another token, the update of a request that presented the earlier
\* one does not run
C14_OnlyStoredTokenAuthorizes ==
    [][\A r \in Reqs :
        (req[r].kind = "reset" /\ req[r].pc = "update" /\ req'[r].pc = "done") =>
            \A i \in 1 .. Len(signup) :
                signup[i].id = req[r].user.id =>
                    signup[i].reset_token \in {req[r].token, NULL}]_vars

\* the reset-password requests that take their update step for row i
Resetting(i) ==
    {r \in Reqs : /\ req[r].kind = "reset" /\ req[r].pc = "update"
                  /\ req[r].user.id = signup[i].id}

\* C20: a step changes the password of a row only as the update step of a
\* reset-password request for that row, which is then answered 200; no step
\* removes or reorders rows, and none changes the id, email, username or
\* joined_at of a row
C20_PasswordFrame ==
    [][/\ Len(signup') >= Len(signup)
       /\ \A i \in 1 .. Len(signup) :
            /\ signup'[i].id = signup[i].id
            /\ signup'[i].email = signup[i].email
            /\ signup'[i].username = signup[i].username
            /\ signup'[i].joined_at = signup[i].joined_at
            /\ signup'[i].password # signup[i].password =>
                  \E r \in Resetting(i) :
                      /\ req'[r].pc = "done"
                      /\ req'[r].resp = [status |-> 200, message |-> PasswordReset]
                      /\ signup'[i].password = req[r].hashedPassword]_vars

\* a reset has changed the password of the row, and a signin, a protected
\* read and a request whose store call rejected have been answered
C20_Witness ==
    /\ \E i \in 1 .. Len(signup) : signup[i].password.of = Password2
    /\ \E r1, r2 \in Reqs :
          /\ IsDone(r1, "me") /\ req[r1].resp.status = 200
          /\ req[r2].kind \in {"signup", "signin", "forgot", "reset"}
          /\ req[r2].pc = "done" /\ req[r2].resp.status = 500

\* the columns that no response carries
Secret == {"password", "reset_token", "reset_expires"}

\* C18: every response is made of a status, a message or error, a success
\* flag, a bearer token and a user object; the token carries id, email and
\* username, the user object none of password, reset_token, reset_expires;
\* and a stored reset token has been handed to the mail dispatch for the
\* email of its row
C18_NoSecretInResponse ==
    /\ \A r \in Reqs :
          req[r].pc = "done" =>
              /\ DOMAIN req[r].resp \subseteq
                     {"status", "message", "error", "success", "token", "user"}
              /\ "user" \in DOMAIN req[r].resp =>
                     DOMAIN req[r].resp.user \cap Secret = {}
              /\ "token" \in DOMAIN req[r].resp =>
                     DOMAIN req[r].resp.token =
                         {"jwt", "id", "email", "username", "iat", "exp", "sig"}
    /\ \A i \in 1 .. Len(signup) :
          signup[i].reset_token # NULL =>
              \E m \in mails : m.to = signup[i].email /\ m.token = signup[i].reset_token

\* the row holds a reset token while a signin and a protected read of that
\* account have been answered with the user object
C18_Witness ==
    \E r1, r2 \in Reqs, i \in 1 .. Len(signup) :
        /\ signup[i].reset_token # NULL
        /\ IsDone(r1, "signin") /\ req[r1].resp.status = 200
        /\ req[r1].resp.user.id = signup[i].id
        /\ req[r2].kind \in Protected /\ req[r2].pc = "done"
        /\ req[r2].resp.status = 200 /\ "user" \in DOMAIN req[r2].resp
        /\ req[r2].resp.user.id = signup[i].id

\* the SELECT of a forgot-password request has returned, with or without a row
SelectReturned(r) == "user" \in DOMAIN req[r] \/ "threw" \notin DOMAIN req[r]

\* C11: a forgot-password request with an email, whose SELECT returns, is
\* answered 200 "If that email exists, we sent a reset link." whether or not
\* the email is registered, also when the UPDATE for a registered email
\* rejects
C11_ForgotNoEnumeration ==
    \A r \in Reqs :
        (IsDone(r, "forgot") /\ req[r].email # <<>> /\ SelectReturned(r)) =>
            req[r].resp = [status |-> 200, message |-> ResetLinkSent]

\* C15: the step in which signup or forgot-password hands a message to the
\* mail dispatch is the step that answers the request, 201 or 200, with the
\* dispatch still pending; and the step in which a dispatch succeeds or fails
\* changes neither a row nor a request, so that answers and rows are the same
\* for a dispatch that succeeds, fails or stays pending
C15_MailFireAndForget ==
    [][/\ \A m \in mails' \ mails :
            m.state = "pending" =>
                \E r \in Reqs :
                    /\ req[r].kind \in {"signup", "forgot"} /\ Busy(r)
                    /\ req[r].email = m.to
                    /\ req'[r].pc = "done"
                    /\ req'[r].resp.status = IF req[r].kind = "signup" THEN 201 ELSE 200
                    /\ req'[r].resp.message =
                          IF req[r].kind = "signup" THEN "Account created successfully"
                          ELSE ResetLinkSent
       /\ \A m \in mails' \ mails :
            m.state # "pending" => signup' = signup /\ req' = req]_vars

\* a signup answered 201 whose welcome mail failed and a forgot-password
\* answered 200 whose reset mail is still pending, with the token stored
C15_Witness ==
    \E r1, r2 \in Reqs, m1, m2 \in mails, i \in 1 .. Len(signup) :
        /\ IsDone(r1, "signup") /\ req[r1].resp.status = 201
        /\ m1.to = req[r1].email /\ m1.subject = "welcome" /\ m1.state = "failed"
        /\ IsDone(r2, "forgot") /\ req[r2].resp.status = 200
        /\ "token" \in DOMAIN req[r2]
        /\ m2.token = req[r2].token /\ m2.subject = "reset" /\ m2.state = "pending"
        /\ signup[i].reset_token = req[r2].token

\* C16: a protected read that passed verifyToken and has read the table is
\* answered 404 "User not found" when no row has the id of the token, and
\* otherwise with the row of that id as its user
C16_VanishedRecordIs404 ==
    \A r \in Reqs :
        (req[r].kind \in Protected /\ req[r].pc = "done" /\ req[r].reads = 1) =>
            IF SelectById(req[r].user.id) = <<>>
            THEN Answered(r, 404, "User not found")
            ELSE /\ req[r].resp.status = 200
                 /\ "user" \in DOMAIN req[r].resp
                 /\ req[r].resp.user = SelectById(req[r].user.id)[1]

\* a body that fails the validation of its route
InvalidBody(rec) ==
    \/ /\ rec.kind = "signup"
       /\ (rec.email = <<>> \/ Len(rec.password) < MinPasswordLength)
    \/ /\ rec.kind = "reset"
       /\ (rec.token = NULL \/ Len(rec.newPassword) < MinPasswordLength)

\* C17: a signup without email, without password or with a password shorter
\* than 8, and a reset-password without token, without newPassword or with a
\* newPassword shorter than 8, is answered 400 without a token in the answer,
\* and the step that answers it leaves the table, the id sequence and the
\* mail dispatch as they were
C17_ValidationFrame ==
    /\ [](\A r \in Reqs :
            InvalidBody(req[r]) =>
                /\ req[r].pc = "done"
                /\ req[r].resp.status = 400
                /\ DOMAIN req[r].resp = {"status", "message"})
    /\ [][\A r \in Reqs :
            (req'[r] # req[r] /\ InvalidBody(req'[r])) =>
                /\ signup' = signup
                /\ nextId' = nextId
                /\ mails' = mails]_vars

\* a reset-password with a short newPassword is answered 400 while the row
\* still holds the token it presented, unexpired
C17_Witness ==
    \E r \in Reqs, i \in 1 .. Len(signup) :
        /\ IsDone(r, "reset") /\ req[r].newPassword = ShortPassword
        /\ req[r].resp.status = 400
        /\ signup[i].reset_token = req[r].token
        /\ signup[i].reset_expires > now
        /\ now > 0

\* C19: every request that waits for a store or bcrypt call is eventually
\* answered, on every path including a rejected call, and once it is answered
\* no code of its handler runs again, so that it is answered once
C19_ExactlyOneResponse ==
    /\ \A r \in Reqs : Busy(r) ~> (req[r].pc = "done" /\ "resp" \in DOMAIN req[r])
    /\ [](\A r \in Reqs : req[r].pc = "done" => ~ENABLED Step(r))

\* a request answered by its catch block after a call rejected in mid-handler
C19_Witness ==
    \E r \in Reqs :
        /\ IsDone(r, "reset") /\ "threw" \in DOMAIN req[r]
        /\ "hashedPassword" \in DOMAIN req[r]
        /\ req[r].resp.status = 500

\* the fixed answers of the catch blocks of signup, signin, forgot-password,
\* reset-password and me
Generic ==
    {[status |-> 500, message |-> m] :
        m \in {"Server error during signup", "Server error during signin",
               "Server error", "Could not fetch user"}}

\* C21: a signup, signin, forgot-password, reset-password or me request whose
\* store or bcrypt call rejected is answered 500 with the fixed message of its
\* route; the step that answers 500 changes no row and hands over no mail,
\* and every step that changes a row answers its request 200 or 201, so that
\* a request answered 500 has written nothing
C21_FailureLeavesStore ==
    /\ [](\A r \in Reqs :
            (/\ req[r].kind \in {"signup", "signin", "forgot", "reset", "me"}
             /\ req[r].pc = "done"
             /\ ("threw" \in DOMAIN req[r] \/ req[r].resp.status = 500)) =>
                req[r].resp \in Generic)
    /\ [][\A r \in Reqs :
            (req'[r] # req[r] /\ req'[r].pc = "done" /\ req'[r].resp.status = 500) =>
                signup' = signup /\ mails' = mails]_vars
    /\ [][signup' # signup =>
            \E r \in Reqs :
                /\ Busy(r) /\ req'[r].pc = "done"
                /\ req'[r].resp.status \in {200, 201}]_vars

\* a forgot-password that drew a token and whose UPDATE rejected: answered
\* 500, the row without a reset token
C21_Witness ==
    \E r \in Reqs, i \in 1 .. Len(signup) :
        /\ IsDone(r, "forgot") /\ "threw" \in DOMAIN req[r]
        /\ "token" \in DOMAIN req[r]
        /\ req[r].resp.status = 500
        /\ signup[i].email = req[r].email
        /\ signup[i].reset_token = NULL

\* a signin answered 200 at `at` with a token, and a read of /api/me that
\* presents that token
Presents(r1, r2) ==
    /\ IsDone(r1, "signin") /\ req[r1].resp.status = 200
    /\ req[r2].kind = "me"
    /\ req[r2].header = <<Word("Bearer"), req[r1].resp.token>>

\* verifyToken answered request r 401
Refused(r) ==
    /\ req[r].pc = "done"
    /\ req[r].resp = [status |-> 401, success |-> FALSE,
                      error |-> "Invalid or expired token"]

\* C22 as stated: a token issued at t carries the id, email and username of
\* its user, is accepted by verifyToken at every time before t + 604,800,000
\* ms and answered 401 at every time from t + 604,800,000 ms on
C22_SevenDaysToTheMillisecond ==
    \A r1, r2 \in Reqs :
        Presents(r1, r2) =>
            /\ req[r2].at < req[r1].at + 7 * 24 * 60 * 60 * 1000 => ~Refused(r2)
            /\ req[r2].at >= req[r1].at + 7 * 24 * 60 * 60 * 1000 => Refused(r2)

\* C22 amended: a token issued at t carries the id, email and username of its
\* user and the whole second of t as iat; verifyToken accepts it while the
\* clock's whole second is less than iat + 604,800 and answers 401 from that
\* second on, so its lifetime is between 7 days less 999 ms and 7 days
C22_SevenDaysInSeconds ==
    \A r1 \in Reqs :
        /\ (IsDone(r1, "signup") /\ req[r1].resp.status = 201) =>
              /\ req[r1].resp.token.id = req[r1].resp.user.id
              /\ req[r1].resp.token.email = req[r1].email
              /\ req[r1].resp.token.username = req[r1].resp.user.username
              /\ req[r1].resp.token.exp =
                    (req[r1].resp.user.createdAt \div 1000) + 7 * 24 * 60 * 60
        /\ (IsDone(r1, "signin") /\ req[r1].resp.status = 200) =>
            /\ \E i \in 1 .. Len(signup) :
                  /\ signup[i].email = req[r1].email
                  /\ req[r1].resp.token.id = signup[i].id
                  /\ req[r1].resp.token.email = signup[i].email
                  /\ req[r1].resp.token.username = signup[i].username
            /\ req[r1].resp.token.iat = req[r1].at \div 1000
            /\ \A r2 \in Reqs :
                  Presents(r1, r2) =>
                      LET end == (req[r1].at \div 1000) + 7 * 24 * 60 * 60
                      IN /\ req[r2].at \div 1000 < end => ~Refused(r2)
                         /\ req[r2].at \div 1000 >= end => Refused(r2)
                         /\ (req[r2].at >= req[r1].at + 7 * 24 * 60 * 60 * 1000)
                               => Refused(r2)
                         /\ (req[r2].at + 999 < req[r1].at + 7 * 24 * 60 * 60 * 1000)
                               => ~Refused(r2)

\* a token issued in the middle of a second is refused when it is presented
\* 500 ms before seven days have passed
C22_Witness ==
    \E r1, r2 \in Reqs :
        /\ Presents(r1, r2)
        /\ req[r1].at = 500
        /\ req[r2].at = 7 * 24 * 60 * 60 * 1000
        /\ Refused(r2)

\* C23: the update step of a reset-password request clears the reset token
\* of its row only if that is the token the request presented: a token that a
\* forgot-password request has stored since the lookup stays in the row with
\* its expiry
C23_ClearsOnlyValidatedToken ==
    [][\A r \in Reqs :
        (req[r].kind = "reset" /\ req[r].pc = "update" /\ req'[r].pc = "done"
            /\ req'[r].resp.status = 200) =>
            \A i \in 1 .. Len(signup) :
                (/\ signup[i].id = req[r].user.id
                 /\ signup[i].reset_token # NULL
                 /\ signup[i].reset_token # req[r].token) =>
                    /\ signup'[i].reset_token = signup[i].reset_token
                    /\ signup'[i].reset_expires = signup[i].reset_expires]_vars

\* request r is a signup or signin that was answered with a bearer token
Issued(r) ==
    /\ req[r].kind \in {"signup", "signin"} /\ req[r].pc = "done"
    /\ "token" \in DOMAIN req[r].resp

\* C24: the token in the answer of a signup or signin carries the id, email
\* and username of a row of the table, whatever other requests have done
\* since, and a read of /api/me that presents it is not answered 404
C24_IssuedTokenHasRecord ==
    \A r1 \in Reqs :
        Issued(r1) =>
            /\ \E i \in 1 .. Len(signup) :
                  /\ signup[i].id = req[r1].resp.token.id
                  /\ signup[i].email = req[r1].resp.token.email
                  /\ signup[i].username = req[r1].resp.token.username
            /\ \A r2 \in Reqs :
                  (/\ req[r2].kind = "me" /\ req[r2].pc = "done"
                   /\ req[r2].header = <<Word("Bearer"), req[r1].resp.token>>) =>
                      req[r2].resp.status # 404

\* /api/me answered 200 for the token of a signin, after a reset has changed
\* the password of the row
C24_Witness ==
    \E r1, r2 \in Reqs, i \in 1 .. Len(signup) :
        /\ Issued(r1) /\ req[r1].kind = "signin"
        /\ req[r2].kind = "me" /\ req[r2].pc = "done"
        /\ req[r2].header = <<Word("Bearer"), req[r1].resp.token>>
        /\ req[r2].resp.status = 200
        /\ signup[i].id = req[r1].resp.token.id
        /\ signup[i].password.of = Password2

\* a post to a list has just been answered in slot r
Posted(r) ==
    /\ req'[r] # req[r]
    /\ req'[r].pc = "done"
    /\ req'[r].kind \in {"list", "file"}

\* the rows of the list a post of slot r went to: the table or the JSON file
RowsOf(r, tables, jsons) ==
    IF req'[r].kind = "list" THEN tables[req'[r].list] ELSE jsons[req'[r].list]

NoTwoWithOneEmail(rows) ==
    \A i, j \in 1 .. Len(rows) : rows[i].email = rows[j].email => i = j

\* C25: the waitlist and the funder list, as a table or as a JSON file, never
\* hold two entries with the same email, whatever the sequence or
\* interleaving of posts. A post without an email is answered 400 and adds
\* nothing; a post whose email is already in the list is answered 400
\* 'Already on the waitlist' ('Already registered as a funder') and adds
\* nothing; a post with a new email adds exactly one entry, of that email,
\* and changes nothing else; a post answered anything but success adds
\* nothing. (A post answered 500, the table or file having failed, is
\* outside the two middle cases.)
C25_NoDuplicateEntry ==
    /\ [](\A l \in {"waitlist", "funder"} :
             NoTwoWithOneEmail(lists[l]) /\ NoTwoWithOneEmail(files[l]))
    /\ [][\A r \in Reqs : Posted(r) =>
            LET rec == req'[r]
                before == RowsOf(r, lists, files)
                after == RowsOf(r, lists', files')
                present == \E i \in 1 .. Len(before) : before[i].email = rec.email
            IN /\ rec.email = <<>> =>
                    /\ rec.resp = [status |-> 400, success |-> FALSE,
                                   error |-> "Email is required"]
                    /\ UNCHANGED <<lists, files>>
               /\ rec.email # <<>> /\ present /\ rec.resp.status # 500 =>
                    /\ rec.resp = [status |-> 400, success |-> FALSE,
                                   error |-> IF rec.list = "waitlist"
                                             THEN "Already on the waitlist"
                                             ELSE "Already registered as a funder"]
                    /\ UNCHANGED <<lists, files>>
               /\ rec.email # <<>> /\ ~present /\ rec.resp.status # 500 =>
                    /\ rec.resp.status = 200 /\ rec.resp.success
                    /\ Len(after) = Len(before) + 1
                    /\ SubSeq(after, 1, Len(before)) = before
                    /\ after[Len(after)].email = rec.email
                    /\ \A l \in {"waitlist", "funder"} :
                          /\ (rec.kind = "list" /\ l = rec.list)
                             \/ lists'[l] = lists[l]
                          /\ (rec.kind = "file" /\ l = rec.list)
                             \/ files'[l] = files[l]
               /\ rec.resp.status # 200 => UNCHANGED <<lists, files>>
         ]_vars

\* two posts of one email to the waitlist table were in flight together, one
\* was added and the other answered 'Already on the waitlist', the table
\* holds that email once; and the waitlist file holds two entries
C25_Witness ==
    /\ req[1].kind = "list" /\ req[2].kind = "list"
    /\ req[1].pc = "done" /\ req[2].pc = "done"
    /\ req[1].list = "waitlist" /\ req[2].list = "waitlist"
    /\ req[1].email = req[2].email /\ req[1].email # <<>>
    /\ {req[1].resp.status, req[2].resp.status} = {200, 400}
    /\ \E r \in Reqs : /\ req[r].resp.status = 400
                       /\ req[r].resp.error = "Already on the waitlist"
    /\ Len(lists["waitlist"]) = 1
    /\ lists["waitlist"][1].email = req[1].email
    /\ Len(files["waitlist"]) = 2

====
